---- MODULE Spec2Model ----
(***************************************************************************)
(* Model of My_Tpetra_Vector.cpp: main() and exampleRoutine(), run by      *)
(* numProcs MPI processes.  Every process executes the same routine; the   *)
(* Tpetra objects (Map, Vector) are distributed, each process holding its  *)
(* local part.  Collective library calls block until every process of the  *)
(* communicator has entered the collective with the same sequence number.  *)
(*                                                                         *)
(* Scalars are doubles in the source.  The model computes exactly in the   *)
(* polynomial ring Z[alpha, beta]: alpha and beta are indeterminates that  *)
(* stand for 3.14159 and 2.71828, so an equality that holds in the model   *)
(* holds for those values in exact arithmetic (rounding is not modelled).  *)
(* norm2() is modelled by the sum of squares it takes the root of.         *)
(***************************************************************************)
EXTENDS Integers, Sequences, FiniteSets, TLC

\* ---------------------------------------------------------------- bounds
MaxP == 2        \* largest communicator size explored
MaxSeed == 1     \* randomize() draws each process's entries from seeds 0..MaxSeed

\* ------------------------------------------------------ program constants
numEltsPerProc == 5
indexBase == 0
EltsFactor == 5
FortyTwo == 42
GammaValue == -10

VARIABLES
  numProcs,    \* comm->getSize()
  fault,       \* which library answer is wrong ("none" in the real library)
  pc,          \* pc[r]: position of process r in main/exampleRoutine
  coll,        \* coll[r]: collective operations process r has entered, in order
  asked,       \* asked[r]: Map queries process r has evaluated in an assertion
  contigMap,   \* contigMap[r]: local part of the contiguous Map
  cyclicMap,   \* cyclicMap[r]: local part of the cyclic Map
  x, y, z,     \* x[r], y[r], z[r]: local parts of the three Vectors
  sent,        \* sent[r]: what r contributed to the norm reductions, in order
  theNorm, theXNorm, theZNorm,  \* results of the three norm2() calls
  stdout,      \* stdout[r]: what reached the standard output of process r
  exitCode     \* exitCode[r]: how process r ended

vars == <<numProcs, fault, pc, coll, asked, contigMap, cyclicMap, x, y, z, sent,
          theNorm, theXNorm, theZNorm, stdout, exitCode>>

Ranks == 0 .. (numProcs - 1)

\* ------------------------------------------------ exact scalar arithmetic
\* A scalar is a polynomial in alpha and beta with integer coefficients: a
\* function from the monomials <<i, j>> (alpha^i * beta^j) that occur in it
\* to their non-zero coefficients.  Equal polynomials are equal functions.
Coef(p, m) == IF m \in DOMAIN p THEN p[m] ELSE 0

Normal(f) == [m \in {d \in DOMAIN f : f[d] # 0} |-> f[m]]

Const(c) == Normal([m \in {<<0, 0>>} |-> c])
alpha == [m \in {<<1, 0>>} |-> 1]
beta == [m \in {<<0, 1>>} |-> 1]
gamma == Const(GammaValue)
one == Const(1)

\* Sum of the integers f[e], e in the finite set S.
SumFn(f, S) ==
  LET sum[T \in SUBSET S] ==
        IF T = {} THEN 0
        ELSE LET e == CHOOSE e \in T : TRUE IN f[e] + sum[T \ {e}]
  IN sum[S]

\* The monomials of the product p*q, and the coefficient of m in it.
Terms(p, q) == {<<a[1] + b[1], a[2] + b[2]>> : a \in DOMAIN p, b \in DOMAIN q}

ConvAt(p, q, m) ==
  LET A == {a \in DOMAIN p : <<m[1] - a[1], m[2] - a[2]>> \in DOMAIN q}
  IN SumFn([a \in A |-> p[a] * q[<<m[1] - a[1], m[2] - a[2]>>]], A)

\* a*u + b*v
LinComb2(a, u, b, v) ==
  Normal([m \in Terms(a, u) \cup Terms(b, v) |->
            ConvAt(a, u, m) + ConvAt(b, v, m)])

\* a*u + b*v + c*w
LinComb3(a, u, b, v, c, w) ==
  Normal([m \in Terms(a, u) \cup Terms(b, v) \cup Terms(c, w) |->
            ConvAt(a, u, m) + ConvAt(b, v, m) + ConvAt(c, w, m)])

\* Sum of the polynomials f[i], i in the finite set I.
PolySum(f, I) ==
  Normal([m \in UNION {DOMAIN f[i] : i \in I} |->
            SumFn([i \in I |-> Coef(f[i], m)], I)])

\* Sum of the squares f[i]*f[i], i in the finite set I.
SumSquares(f, I) ==
  Normal([m \in UNION {Terms(f[i], f[i]) : i \in I} |->
            SumFn([i \in I |-> ConvAt(f[i], f[i], m)], I)])

\* ------------------------------------------------------------ Tpetra::Map
NoMap == [numGlobal |-> 0, gids |-> <<>>, contiguous |-> FALSE, built |-> FALSE]

Min(a, b) == IF a < b THEN a ELSE b

\* Map(numGlobalElements, indexBase, comm, GloballyDistributed, node):
\* the library splits the indices into one block per process, as evenly as
\* possible, and marks the Map contiguous.
UniformContiguousMap(n, base, r) ==
  LET q == n \div numProcs
      rem == n % numProcs
      numLocal == q + (IF r < rem THEN 1 ELSE 0)
      first == base + r * q + Min(r, rem)
  IN [numGlobal |-> n,
      gids |-> [l \in 1 .. numLocal |-> first + (l - 1)],
      contiguous |-> TRUE,
      built |-> TRUE]

\* Map(numGlobalElements, elementList, indexBase, comm, node): the process
\* owns exactly the listed indices, in the listed order; the library never
\* marks such a Map contiguous.
ElementListMap(n, list, base, r) ==
  [numGlobal |-> n, gids |-> list, contiguous |-> FALSE, built |-> TRUE]

isContiguous(m) == m.contiguous

\* isCompatible: same global count, and on every process the same local count.
isCompatible(A, B) ==
  /\ \A q \in Ranks : A[q].numGlobal = B[q].numGlobal
  /\ \A q \in Ranks : Len(A[q].gids) = Len(B[q].gids)

\* isSameAs: compatible, and on every process the same indices in the same order.
isSameAs(A, B) ==
  /\ isCompatible(A, B)
  /\ \A q \in Ranks : A[q].gids = B[q].gids

\* Glossary: each process owns one unbroken block of global indices.
IsBlock(s) == \A l \in 1 .. Len(s) : s[l] = s[1] + (l - 1)

\* --------------------------------------------------------- Tpetra::Vector
NoVector == [map |-> NoMap, data |-> <<>>]

\* Vector(map): entries filled with zeros.  Vector(map, false) leaves the
\* entries unset; the routine overwrites all of them before reading any.
ZeroVector(m) == [map |-> m, data |-> [l \in 1 .. Len(m.gids) |-> Const(0)]]

\* Teuchos::ScalarTraits<double>::random(): a pseudo-random value in [-1, 1],
\* here the l-th value of the stream started from seed s.
Rand(s, l) == ((s + l) % 3) - 1

randomize(v, s) == [v EXCEPT !.data = [l \in DOMAIN @ |-> Const(Rand(s, l))]]

putScalar(v, c) == [v EXCEPT !.data = [l \in DOMAIN @ |-> c]]

\* this->update(a, A, b): this = b*this + a*A, entry by entry in local order.
update(this, a, A, b) ==
  [this EXCEPT !.data =
     [l \in DOMAIN @ |-> LinComb2(b, this.data[l], a, A.data[l])]]

\* this->update(a, A, b, B, g): this = g*this + a*A + b*B.
update3(this, a, A, b, B, g) ==
  [this EXCEPT !.data =
     [l \in DOMAIN @ |->
        LinComb3(g, this.data[l], a, A.data[l], b, B.data[l])]]

\* norm2(), local part: the sum of the squares of the entries the process
\* holds, which it contributes to the reduction.
LocalSumSquares(v) == SumSquares(v.data, DOMAIN v.data)

\* norm2(), collective part: the k-th contributions of all processes are
\* summed; every process gets the sum (the root is not taken here).
norm2(k) == PolySum([q \in Ranks |-> sent[q][k]], Ranks)

\* ------------------------------------------------------------------ main
\* One line reaching the standard output of a process: written through
\* `out`, or by the child process that system() starts.
Item(via, text, val) == [via |-> via, text |-> text, val |-> val]

OutEveryRank(r, items) == items

\* std::ostream& out = (myRank == 0) ? std::cout : blackHole
Out(r, items) == IF r = 0 THEN items ELSE <<>>

\* system("echo helloooo!"): the shell child inherits the standard output
\* of the calling process and writes the text there; the call returns the
\* termination status.
System(r) == <<Item("child", "helloooo!", Const(0))>>

\* -------------------------------------------------------- exampleRoutine
numGlobalElementsOffByOne == numProcs * EltsFactor + 1

\* const Tpetra::global_size_t numGlobalElements = comm->getSize() * 5
numGlobalElements == numProcs * EltsFactor

elementListBlock(r) == [l \in 1 .. numEltsPerProc |-> r * numEltsPerProc + (l - 1)]

\* for (k = 0; k < numEltsPerProc; ++k) elementList[k] = myRank + k*numProcs
elementList(r) == [l \in 1 .. numEltsPerProc |-> r + (l - 1) * numProcs]

ContigMapCtorFromList(r) ==
  ElementListMap(numGlobalElements, elementListBlock(r), indexBase, r)

\* contigMap = rcp (new map_type (numGlobalElements, indexBase, comm,
\*                                Tpetra::GloballyDistributed, node))
ContigMapCtor(r) == UniformContiguousMap(numGlobalElements, indexBase, r)

CyclicMapCtorUniform(r) == UniformContiguousMap(numGlobalElements, indexBase, r)

\* cyclicMap = rcp (new map_type (numGlobalElements, elementList, indexBase,
\*                                comm, node))
CyclicMapCtor(r) == ElementListMap(numGlobalElements, elementList(r), indexBase, r)

\* comm->getSize() > 1 && ... : the guards of the second and fourth assertion
NonContigGuard(r) == numProcs > 1

SameAsGuardAlways(r) == TRUE

SameAsGuardByRank(r) == r > 0

SameAsGuard(r) == numProcs > 1

ZMapCyclic(r) == cyclicMap[r]

\* The Map z is constructed on (line 208).
ZMap(r) == contigMap[r]

\* x->putScalar(one); x->update(alpha, *z, beta)
XUpdate(r) == update(putScalar(x[r], one), alpha, z[r], beta)

YUpdateSwapped(r) ==
  update3(putScalar(y[r], Const(FortyTwo)), alpha, z[r], beta, x[r], gamma)

\* y->putScalar(42); y->update(alpha, *x, beta, *z, gamma)
YUpdate(r) ==
  update3(putScalar(y[r], Const(FortyTwo)), alpha, x[r], beta, z[r], gamma)

Faults == {"none", "contig.isContiguous", "cyclic.isContiguous",
           "isCompatible", "isSameAs"}

\* The answer a Map query gives: the library's, unless that query is the faulty one.
Answer(q, truth) == IF fault = q THEN ~truth ELSE truth

\* A collective completes on r once every process has entered it.
Ready(r) == \A q \in Ranks : Len(coll[q]) >= Len(coll[r])

StepIgnoringRaise(r, raised, next) ==
  /\ pc' = [pc EXCEPT ![r] = next]
  /\ exitCode' = exitCode

\* TEST_FOR_EXCEPTION: throws std::logic_error when `raised`; nothing catches
\* it, so the process terminates abnormally.  Otherwise control goes on.
Step(r, raised, next) ==
  /\ pc' = [pc EXCEPT ![r] = IF raised THEN "aborted" ELSE next]
  /\ exitCode' = [exitCode EXCEPT ![r] = IF raised THEN "abort" ELSE @]

Enter(r, from, to, name) ==
  /\ pc[r] = from
  /\ pc' = [pc EXCEPT ![r] = to]
  /\ coll' = [coll EXCEPT ![r] = Append(@, name)]

TypeInit ==
  /\ numProcs \in 1 .. MaxP
  /\ pc = [r \in Ranks |-> "start"]
  /\ coll = [r \in Ranks |-> <<>>]
  /\ asked = [r \in Ranks |-> {}]
  /\ contigMap = [r \in Ranks |-> NoMap]
  /\ cyclicMap = [r \in Ranks |-> NoMap]
  /\ x = [r \in Ranks |-> NoVector]
  /\ y = [r \in Ranks |-> NoVector]
  /\ z = [r \in Ranks |-> NoVector]
  /\ sent = [r \in Ranks |-> <<>>]
  /\ theNorm = [r \in Ranks |-> <<>>]
  /\ theXNorm = [r \in Ranks |-> <<>>]
  /\ theZNorm = [r \in Ranks |-> <<>>]
  /\ stdout = [r \in Ranks |-> <<>>]
  /\ exitCode = [r \in Ranks |-> "running"]

Init == TypeInit /\ fault = "none"

FaultInit == TypeInit /\ fault \in Faults

\* Lines 22-26.
PrintVersion(r) ==
  /\ pc[r] = "start"
  /\ stdout' = [stdout EXCEPT ![r] =
       @ \o Out(r, <<Item("out", "Tpetra::version()", Const(0)),
                     Item("out", "This is a test", Const(0))>>)
         \o System(r)
         \o Out(r, <<Item("out", "status", Const(0))>>)]
  /\ pc' = [pc EXCEPT ![r] = "contigMap"]
  /\ UNCHANGED <<numProcs, fault, coll, asked, contigMap, cyclicMap, x, y, z, sent,
                 theNorm, theXNorm, theZNorm, exitCode>>

\* Lines 135-141.
ContigMapEnter(r) ==
  /\ Enter(r, "contigMap", "contigWait", "contigMap")
  /\ UNCHANGED <<numProcs, fault, asked, contigMap, cyclicMap, x, y, z, sent,
                 theNorm, theXNorm, theZNorm, stdout, exitCode>>

ContigMap(r) ==
  /\ pc[r] = "contigWait"
  /\ Ready(r)
  /\ contigMap' = [contigMap EXCEPT ![r] = ContigMapCtor(r)]
  /\ asked' = [asked EXCEPT ![r] = @ \cup {"contig.isContiguous"}]
  /\ Step(r, ~Answer("contig.isContiguous", isContiguous(ContigMapCtor(r))),
          "cyclicMap")
  /\ UNCHANGED <<numProcs, fault, coll, cyclicMap, x, y, z, sent,
                 theNorm, theXNorm, theZNorm, stdout>>

\* Lines 147-172.
CyclicMapEnter(r) ==
  /\ Enter(r, "cyclicMap", "cyclicWait", "cyclicMap")
  /\ UNCHANGED <<numProcs, fault, asked, contigMap, cyclicMap, x, y, z, sent,
                 theNorm, theXNorm, theZNorm, stdout, exitCode>>

CyclicMap(r) ==
  /\ pc[r] = "cyclicWait"
  /\ Ready(r)
  /\ cyclicMap' = [cyclicMap EXCEPT ![r] = CyclicMapCtor(r)]
  /\ asked' = [asked EXCEPT ![r] =
       IF NonContigGuard(r) THEN @ \cup {"cyclic.isContiguous"} ELSE @]
  /\ Step(r, NonContigGuard(r)
               /\ Answer("cyclic.isContiguous", isContiguous(CyclicMapCtor(r))),
          "isCompatible")
  /\ UNCHANGED <<numProcs, fault, coll, contigMap, x, y, z, sent,
                 theNorm, theXNorm, theZNorm, stdout>>

\* Lines 177-180.
IsCompatibleEnter(r) ==
  /\ Enter(r, "isCompatible", "compatWait", "isCompatible")
  /\ UNCHANGED <<numProcs, fault, asked, contigMap, cyclicMap, x, y, z, sent,
                 theNorm, theXNorm, theZNorm, stdout, exitCode>>

IsCompatible(r) ==
  /\ pc[r] = "compatWait"
  /\ Ready(r)
  /\ asked' = [asked EXCEPT ![r] = @ \cup {"isCompatible"}]
  /\ Step(r, ~Answer("isCompatible", isCompatible(contigMap, cyclicMap)),
          IF SameAsGuard(r) THEN "isSameAs" ELSE "vectors")
  /\ UNCHANGED <<numProcs, fault, coll, contigMap, cyclicMap, x, y, z, sent,
                 theNorm, theXNorm, theZNorm, stdout>>

\* Lines 181-184.
IsSameAsEnter(r) ==
  /\ Enter(r, "isSameAs", "sameWait", "isSameAs")
  /\ UNCHANGED <<numProcs, fault, asked, contigMap, cyclicMap, x, y, z, sent,
                 theNorm, theXNorm, theZNorm, stdout, exitCode>>

IsSameAs(r) ==
  /\ pc[r] = "sameWait"
  /\ Ready(r)
  /\ asked' = [asked EXCEPT ![r] = @ \cup {"isSameAs"}]
  /\ Step(r, Answer("isSameAs", isSameAs(contigMap, cyclicMap)), "vectors")
  /\ UNCHANGED <<numProcs, fault, coll, contigMap, cyclicMap, x, y, z, sent,
                 theNorm, theXNorm, theZNorm, stdout>>

\* Lines 198-212: x zero-filled, y a deep copy of x, z randomized.
CreateVectors(r) ==
  /\ pc[r] = "vectors"
  /\ x' = [x EXCEPT ![r] = ZeroVector(contigMap[r])]
  /\ y' = [y EXCEPT ![r] = x'[r]]
  /\ \E s \in 0 .. MaxSeed :
       z' = [z EXCEPT ![r] = randomize(ZeroVector(ZMap(r)), s)]
  /\ pc' = [pc EXCEPT ![r] = "updateX"]
  /\ UNCHANGED <<numProcs, fault, coll, asked, contigMap, cyclicMap, sent,
                 theNorm, theXNorm, theZNorm, stdout, exitCode>>

\* Lines 219-229.
UpdateX(r) ==
  /\ pc[r] = "updateX"
  /\ x' = [x EXCEPT ![r] = XUpdate(r)]
  /\ pc' = [pc EXCEPT ![r] = "updateY"]
  /\ UNCHANGED <<numProcs, fault, coll, asked, contigMap, cyclicMap, y, z, sent,
                 theNorm, theXNorm, theZNorm, stdout, exitCode>>

\* Lines 231-233.
UpdateY(r) ==
  /\ pc[r] = "updateY"
  /\ y' = [y EXCEPT ![r] = YUpdate(r)]
  /\ pc' = [pc EXCEPT ![r] = "normY"]
  /\ UNCHANGED <<numProcs, fault, coll, asked, contigMap, cyclicMap, x, z, sent,
                 theNorm, theXNorm, theZNorm, stdout, exitCode>>

\* Lines 241-247.
NormYEnter(r) ==
  /\ Enter(r, "normY", "normYWait", "norm2(y)")
  /\ sent' = [sent EXCEPT ![r] = Append(@, LocalSumSquares(y[r]))]
  /\ UNCHANGED <<numProcs, fault, asked, contigMap, cyclicMap, x, y, z,
                 theNorm, theXNorm, theZNorm, stdout, exitCode>>

NormY(r) ==
  /\ pc[r] = "normYWait"
  /\ Ready(r)
  /\ LET n == norm2(1)
     IN /\ theNorm' = [theNorm EXCEPT ![r] = <<n>>]
        /\ stdout' = [stdout EXCEPT ![r] =
             @ \o Out(r, <<Item("out", "Norm of y: ", n),
                           Item("out", "This is my new Code!", Const(0))>>)]
  /\ pc' = [pc EXCEPT ![r] = "normX"]
  /\ UNCHANGED <<numProcs, fault, coll, asked, contigMap, cyclicMap, x, y, z, sent,
                 theXNorm, theZNorm, exitCode>>

\* Lines 249-251.
NormXEnter(r) ==
  /\ Enter(r, "normX", "normXWait", "norm2(x)")
  /\ sent' = [sent EXCEPT ![r] = Append(@, LocalSumSquares(x[r]))]
  /\ UNCHANGED <<numProcs, fault, asked, contigMap, cyclicMap, x, y, z,
                 theNorm, theXNorm, theZNorm, stdout, exitCode>>

NormX(r) ==
  /\ pc[r] = "normXWait"
  /\ Ready(r)
  /\ LET n == norm2(2)
     IN /\ theXNorm' = [theXNorm EXCEPT ![r] = <<n>>]
        /\ stdout' = [stdout EXCEPT ![r] =
             @ \o Out(r, <<Item("out", "Norm of x?: ", n)>>)]
  /\ pc' = [pc EXCEPT ![r] = "normZ"]
  /\ UNCHANGED <<numProcs, fault, coll, asked, contigMap, cyclicMap, x, y, z, sent,
                 theNorm, theZNorm, exitCode>>

\* Lines 253-255.
NormZEnter(r) ==
  /\ Enter(r, "normZ", "normZWait", "norm2(z)")
  /\ sent' = [sent EXCEPT ![r] = Append(@, LocalSumSquares(z[r]))]
  /\ UNCHANGED <<numProcs, fault, asked, contigMap, cyclicMap, x, y, z,
                 theNorm, theXNorm, theZNorm, stdout, exitCode>>

NormZ(r) ==
  /\ pc[r] = "normZWait"
  /\ Ready(r)
  /\ LET n == norm2(3)
     IN /\ theZNorm' = [theZNorm EXCEPT ![r] = <<n>>]
        /\ stdout' = [stdout EXCEPT ![r] =
             @ \o Out(r, <<Item("out", "Norm of z?: ", n)>>)]
  /\ pc' = [pc EXCEPT ![r] = "return"]
  /\ UNCHANGED <<numProcs, fault, coll, asked, contigMap, cyclicMap, x, y, z, sent,
                 theNorm, theXNorm, exitCode>>

\* Line 279: exampleRoutine has returned; main returns 0.
Return(r) ==
  /\ pc[r] = "return"
  /\ pc' = [pc EXCEPT ![r] = "done"]
  /\ exitCode' = [exitCode EXCEPT ![r] = "0"]
  /\ UNCHANGED <<numProcs, fault, coll, asked, contigMap, cyclicMap, x, y, z, sent,
                 theNorm, theXNorm, theZNorm, stdout>>

Proc(r) ==
  \/ PrintVersion(r)
  \/ ContigMapEnter(r)
  \/ ContigMap(r)
  \/ CyclicMapEnter(r)
  \/ CyclicMap(r)
  \/ IsCompatibleEnter(r)
  \/ IsCompatible(r)
  \/ IsSameAsEnter(r)
  \/ IsSameAs(r)
  \/ CreateVectors(r)
  \/ UpdateX(r)
  \/ UpdateY(r)
  \/ NormYEnter(r)
  \/ NormY(r)
  \/ NormXEnter(r)
  \/ NormX(r)
  \/ NormZEnter(r)
  \/ NormZ(r)
  \/ Return(r)

Next ==
  \/ \E r \in Ranks : PrintVersion(r)
  \/ \E r \in Ranks : ContigMapEnter(r)
  \/ \E r \in Ranks : ContigMap(r)
  \/ \E r \in Ranks : CyclicMapEnter(r)
  \/ \E r \in Ranks : CyclicMap(r)
  \/ \E r \in Ranks : IsCompatibleEnter(r)
  \/ \E r \in Ranks : IsCompatible(r)
  \/ \E r \in Ranks : IsSameAsEnter(r)
  \/ \E r \in Ranks : IsSameAs(r)
  \/ \E r \in Ranks : CreateVectors(r)
  \/ \E r \in Ranks : UpdateX(r)
  \/ \E r \in Ranks : UpdateY(r)
  \/ \E r \in Ranks : NormYEnter(r)
  \/ \E r \in Ranks : NormY(r)
  \/ \E r \in Ranks : NormXEnter(r)
  \/ \E r \in Ranks : NormX(r)
  \/ \E r \in Ranks : NormZEnter(r)
  \/ \E r \in Ranks : NormZ(r)
  \/ \E r \in Ranks : Return(r)

Spec == Init /\ [][Next]_vars

\* Every process is scheduled by the operating system: a process that can
\* take a step eventually takes one.
LiveSpec == Spec /\ \A r \in 0 .. (MaxP - 1) : WF_vars(r \in Ranks /\ Proc(r))

\* The same program against a library one of whose Map queries answers wrongly.
FaultSpec == FaultInit /\ [][Next]_vars

\* ------------------------------------------------------------- properties
\* The processes holding the global index i in the distributed Map M, each
\* with the local position of i.
Holders(M, i) ==
  {p \in UNION {{<<q, l>> : l \in DOMAIN M[q].gids} : q \in Ranks} :
     M[p[1]].gids[p[2]] = i}

GlobalIndices == indexBase .. (indexBase + numProcs * EltsFactor - 1)

\* C1: for every process count, the contiguous Map over 5*P elements reports
\* itself as contiguous, every process owning one unbroken block of the
\* index range, and the first assertion does not raise.
C1_ContigMapIsContiguous ==
  \A r \in Ranks :
    contigMap[r].built =>
      /\ isContiguous(contigMap[r])
      /\ IsBlock(contigMap[r].gids)
      /\ contigMap[r].gids # <<>>
      /\ \A l \in DOMAIN contigMap[r].gids : contigMap[r].gids[l] \in GlobalIndices
      /\ (asked[r] = {"contig.isContiguous"} => pc[r] # "aborted")

C1_Witness ==
  /\ numProcs > 1
  /\ \A r \in Ranks : contigMap[r].built /\ pc[r] = "cyclicMap"

\* C2: with more than one process, the cyclic Map (rank r lists r + k*P,
\* k in 0..4) reports itself as non-contiguous, no process owning an
\* unbroken block, and the second assertion does not raise.
C2_CyclicMapNotContiguous ==
  \A r \in Ranks :
    (numProcs > 1 /\ cyclicMap[r].built) =>
      /\ ~isContiguous(cyclicMap[r])
      /\ ~IsBlock(cyclicMap[r].gids)
      /\ cyclicMap[r].gids = [l \in 1 .. 5 |-> r + (l - 1) * numProcs]
      /\ "cyclic.isContiguous" \in asked[r]
      /\ (asked[r] = {"contig.isContiguous", "cyclic.isContiguous"}
            => pc[r] # "aborted")

C2_Witness ==
  /\ numProcs > 1
  /\ \A r \in Ranks : cyclicMap[r].built /\ pc[r] = "isCompatible"

\* C3: for every process count the two Maps are compatible: both count 5*P
\* global elements, every process owns 5 elements in both, and the
\* compatibility assertion does not raise.
C3_MapsCompatible ==
  \A r \in Ranks :
    "isCompatible" \in asked[r] =>
      /\ isCompatible(contigMap, cyclicMap)
      /\ \A q \in Ranks :
           /\ contigMap[q].numGlobal = 5 * numProcs
           /\ cyclicMap[q].numGlobal = 5 * numProcs
           /\ Len(contigMap[q].gids) = 5
           /\ Len(cyclicMap[q].gids) = 5
      /\ pc[r] # "aborted"

C3_Witness ==
  /\ numProcs > 1
  /\ \A r \in Ranks : "isCompatible" \in asked[r] /\ pc[r] = "isSameAs"

\* C4: with more than one process the two Maps are not the same: some global
\* index is held by a different process, or at a different local position,
\* in the two Maps, and the isSameAs assertion does not raise.
C4_MapsNotSame ==
  \A r \in Ranks :
    (numProcs > 1 /\ "isSameAs" \in asked[r]) =>
      /\ ~isSameAs(contigMap, cyclicMap)
      /\ \E i \in GlobalIndices : Holders(contigMap, i) # Holders(cyclicMap, i)
      /\ pc[r] # "aborted"

C4_Witness ==
  /\ numProcs > 1
  /\ \A r \in Ranks : "isSameAs" \in asked[r] /\ pc[r] = "vectors"

\* C5: in a single-process run both Maps are <<0,1,2,3,4>> on process 0, hence
\* the same; the non-contiguity and the isSameAs check are not evaluated, no
\* assertion raises, and the routine gets to the norm computations.
C5_Safe ==
  numProcs = 1 =>
    /\ pc[0] # "aborted"
    /\ (contigMap[0].built => contigMap[0].gids = <<0, 1, 2, 3, 4>>)
    /\ (cyclicMap[0].built => cyclicMap[0].gids = <<0, 1, 2, 3, 4>>)
    /\ (cyclicMap[0].built => isSameAs(contigMap, cyclicMap))
    /\ asked[0] \subseteq {"contig.isContiguous", "isCompatible"}
    /\ \A k \in DOMAIN coll[0] : coll[0][k] # "isSameAs"

C5_SingleProcess ==
  /\ []C5_Safe
  /\ <>(numProcs = 1 =>
          theNorm[0] # <<>> /\ theXNorm[0] # <<>> /\ theZNorm[0] # <<>>)

C5_Witness ==
  /\ numProcs = 1
  /\ pc[0] = "done"
  /\ asked[0] = {"contig.isContiguous", "isCompatible"}
  /\ theZNorm[0] # <<>>

\* The entry of the distributed Vector V at global index i.
ValueAt(V, i) ==
  LET p == CHOOSE p \in UNION {{<<q, l>> : l \in DOMAIN V[q].data} : q \in Ranks} :
             V[p[1]].map.gids[p[2]] = i
  IN V[p[1]].data[p[2]]

AfterUpdateX ==
  {"updateY", "normY", "normYWait", "normX", "normXWait", "normZ", "normZWait",
   "return", "done"}

AfterUpdateY == AfterUpdateX \ {"updateY"}

\* beta*1 + alpha*z[i], computed from z alone.
ExpectedX(i) == LinComb2(beta, Const(1), alpha, ValueAt(z, i))

\* gamma*42 + alpha*(beta + alpha*z[i]) + beta*z[i], computed from z alone.
ExpectedY(i) ==
  LinComb3(Const(-10), Const(42), alpha, ExpectedX(i), beta, ValueAt(z, i))

Finished == \A r \in Ranks : pc[r] = "done"

C7_Safe ==
  /\ (\A r \in Ranks : pc[r] \in AfterUpdateY) =>
       \A r \in Ranks : \A l \in DOMAIN y[r].data :
         /\ y[r].data[l] = ExpectedY(y[r].map.gids[l])
         /\ ValueAt(x, y[r].map.gids[l]) = ExpectedX(y[r].map.gids[l])
  /\ Finished =>
       /\ {theNorm[r] : r \in Ranks} =
            {<<SumSquares([i \in GlobalIndices |-> ExpectedY(i)], GlobalIndices)>>}
       /\ \E k \in DOMAIN stdout[0] :
            stdout[0][k] = Item("out", "Norm of y: ", theNorm[0][1])

C8_AsStated ==
  \A r \in Ranks :
    /\ (r # 0 => stdout[r] = <<>>)
    /\ \A k \in DOMAIN stdout[r] : stdout[r][k].via # "child"

\* C8 amended: what the routine writes through `out` reaches standard output
\* on rank 0 only; the shell command runs on every rank and its text appears
\* once on that rank's standard output, its status going through `out`.
C8_OutRankZeroOnly ==
  \A r \in Ranks :
    /\ \A k \in DOMAIN stdout[r] : stdout[r][k].via = "out" => r = 0
    /\ (pc[r] # "start" =>
          Cardinality({k \in DOMAIN stdout[r] : stdout[r][k].via = "child"}) = 1)
    /\ \A k \in DOMAIN stdout[r] :
         stdout[r][k].via = "child" => stdout[r][k].text = "helloooo!"
    /\ (r = 0 /\ pc[r] # "start" =>
          \E k \in DOMAIN stdout[r] :
            stdout[r][k].via = "out" /\ stdout[r][k].text = "status")

C8_Witness ==
  /\ numProcs > 1
  /\ \A r \in Ranks : pc[r] = "done"
  /\ \E r \in Ranks : r # 0 /\ Len(stdout[r]) = 1
  /\ Len(stdout[0]) > 4

\* C9: a process whose assertion fails is aborted there for good: it has
\* built no vector, computed and printed no norm, and has not returned;
\* a process that returned from main has exit code 0.
C9_Safe ==
  \A r \in Ranks :
    /\ (fault # "none" /\ fault \in asked[r] => pc[r] = "aborted")
    /\ (pc[r] = "aborted" =>
          /\ x[r] = NoVector /\ y[r] = NoVector /\ z[r] = NoVector
          /\ theNorm[r] = <<>> /\ theXNorm[r] = <<>> /\ theZNorm[r] = <<>>
          /\ \A k \in DOMAIN coll[r] :
               coll[r][k] \notin {"norm2(y)", "norm2(x)", "norm2(z)"}
          /\ \A k \in DOMAIN stdout[r] :
               stdout[r][k].text \notin {"Norm of y: ", "Norm of x?: ", "Norm of z?: "}
          /\ exitCode[r] = "abort")
    /\ (pc[r] = "done" <=> exitCode[r] = "0")

C9_AssertionAborts ==
  /\ []C9_Safe
  /\ [][\A r \in Ranks : pc[r] = "aborted" => pc'[r] = "aborted"]_vars

C9_Witness ==
  /\ fault = "isSameAs"
  /\ numProcs > 1
  /\ \A r \in Ranks : pc[r] = "aborted" /\ "isSameAs" \in asked[r]

IsPrefix(s, t) == Len(s) <= Len(t) /\ \A k \in DOMAIN s : s[k] = t[k]

AllCollectives ==
  <<"contigMap", "cyclicMap", "isCompatible", "isSameAs",
    "norm2(y)", "norm2(x)", "norm2(z)">>

\* C10: all processes enter the same collectives in the same order, every
\* assertion has the same outcome on every rank, and every process
\* eventually finishes.
C10_Safe ==
  /\ \A r \in Ranks : \A q \in Ranks :
       /\ IsPrefix(coll[r], coll[q]) \/ IsPrefix(coll[q], coll[r])
       /\ (asked[r] = asked[q] => (pc[r] = "aborted" <=> pc[q] = "aborted"))
  /\ \A r \in Ranks :
       pc[r] = "done" =>
         coll[r] = IF numProcs > 1 THEN AllCollectives
                   ELSE SelectSeq(AllCollectives, LAMBDA c : c # "isSameAs")

C10_AllFinish ==
  /\ []C10_Safe
  /\ <>(\A r \in Ranks : pc[r] = "done")

C10_Witness ==
  /\ numProcs = MaxP
  /\ \A r \in Ranks : pc[r] = "done" /\ Len(coll[r]) = 7

====
